---- MODULE Spec2Model ----
(***************************************************************************)
(* A model of the mori-field-notes daily pipeline (scripts/*.py):          *)
(*   - request_with_retries   (collect-materials.py), specification        *)
(*     SpecRetry: one step per loop iteration, the HTTP outcome is the     *)
(*     input of the step;                                                  *)
(*   - collect_materials      (collect-materials.py), specification        *)
(*     SpecCollect: one step per search result processed;                  *)
(*   - the four stage programs over the persisted files, specification     *)
(*     Spec: one step per run of a stage program;                          *)
(*   - the file writes in two steps with a crash, specification SpecCrash; *)
(*   - write-note.py with its worker thread and deadline, specification    *)
(*     SpecAgent; generate-image.py with one step per collaborator call,   *)
(*     specification SpecIllustrate; two runs of publish.py at the same    *)
(*     time, specification SpecPublishers; publish.py over draft files    *)
(*     with and without a title, specification SpecPublish.                *)
(* All durations are in tenths of a second (1.5 s = 15).                   *)
(***************************************************************************)
EXTENDS Integers, Sequences, FiniteSets, TLC

VARIABLES
    \* request_with_retries
    rq_pc,        \* "loop" | "returned" | "raised"
    rq_attempt,   \* the loop variable `attempt` of the next iteration
    rq_outcomes,  \* the outcome of each session.get so far, in order
    rq_sleeps,    \* every time.sleep performed: [attempt, secs], in order
    rq_error,     \* the exception that left the function: [type, attempt]
    \* collect_materials and the write of its result
    co_pc,        \* "fetch" | "results" | "returned" | "written" | "failed"
    co_index,     \* index of the keyword being queried, 0-based
    entries,      \* the list `entries`
    seen_urls,    \* the set `seen_urls`
    co_processed, \* every result the inner loop has taken: [result, admitted]
    co_delays,    \* number of REQUEST_DELAY_SECONDS sleeps so far
    co_file,      \* what write_materials wrote: [written, entries]
    co_fetched,   \* how the latest fetch_results went
    \* the persisted files and the runs of the stage programs
    materials,    \* materials/<date>.json, per date: [status, data]
    drafts,       \* drafts/<date>.json, per date: [status, data]
    images,       \* docs/images/<date>.webp, per date: [status]
    notes,        \* docs/notes.json: [status, data]
    state,        \* state.json: [status, data]
    last,         \* the most recent run of a stage program
    pub_log,      \* the Publish runs that reached update_notes, in order
    wr,           \* a run that is inside a file write: [pc, kind, date, data, prior]
    \* one run of write-note.py, step by step
    ag_pc,        \* "idle" | "spawn" | "waiting" | "joining" | "validate"
    ag_date,      \* --date of the run
    ag_timeout,   \* --timeout of the run
    ag_clock,     \* time spent in fut.result, up to the timeout
    ag_worker,    \* the pool's worker: "none" | "running" | "returned" | "raised"
    ag_note,      \* the note the run holds
    \* one run of generate-image.py, step by step
    il_pc,        \* "idle" | "api" | "cli"
    il_date,      \* --date of the run
    il_attempt,   \* the loop variable `attempt`
    il_log,       \* every collaborator call of the run: [attempt, via, outcome]
    il_sleeps,    \* every time.sleep of the run: [attempt, secs]
    il_result,    \* how generate_image ended: "none" | "returned" | "raised"
    \* two runs of publish.py at the same time, step by step
    pp            \* per run: [pc, date, note, notes_read, state_read, exit]

rqvars == <<rq_pc, rq_attempt, rq_outcomes, rq_sleeps, rq_error>>

covars == <<co_pc, co_index, entries, seen_urls, co_processed, co_delays, co_file,
            co_fetched>>

pvars == <<materials, drafts, images, notes, state, last, pub_log, wr>>

agvars == <<ag_pc, ag_date, ag_timeout, ag_clock, ag_worker, ag_note>>

ilvars == <<il_pc, il_date, il_attempt, il_log, il_sleeps, il_result>>

ppvars == <<pp>>

\* The state of the step-by-step models of single programs.
xvars == <<agvars, ilvars, ppvars>>

vars == <<rq_pc, rq_attempt, rq_outcomes, rq_sleeps, rq_error,
          co_pc, co_index, entries, seen_urls, co_processed, co_delays, co_file,
          co_fetched,
          materials, drafts, images, notes, state, last, pub_log, wr,
          ag_pc, ag_date, ag_timeout, ag_clock, ag_worker, ag_note,
          il_pc, il_date, il_attempt, il_log, il_sleeps, il_result,
          pp>>

----------------------------------------------------------------------------
(* collect-materials.py: request_with_retries                              *)

MAX_RETRIES == 4
BACKOFF_BASE_SECONDS == 15

RECURSIVE Pow2(_)
Pow2(n) == IF n <= 0 THEN 1 ELSE 2 * Pow2(n - 1)

\* A Retry-After header as response.headers.get returns it: None ("absent"),
\* the empty string, a decimal number of seconds, or text float() rejects
\* (an HTTP-date).  secs is read only when kind = "number".
RetryAfterValues ==
    { [kind |-> "absent", secs |-> 0],
      [kind |-> "empty", secs |-> 0],
      [kind |-> "garbage", secs |-> 0],
      [kind |-> "number", secs |-> -10],
      [kind |-> "number", secs |-> 0],
      [kind |-> "number", secs |-> 20] }

NoRetryAfter == [kind |-> "absent", secs |-> 0]

\* X-RateLimit-Remaining / X-RateLimit-Reset of a response.  resetIn is
\* int(reset) - int(time.time()) at the moment of the check, in whole
\* seconds, read only when reset = "number".
RateLimitValues ==
    { [remaining |-> "absent", reset |-> "absent", resetIn |-> 0],
      [remaining |-> "0", reset |-> "absent", resetIn |-> 0],
      [remaining |-> "0", reset |-> "garbage", resetIn |-> 0],
      [remaining |-> "0", reset |-> "number", resetIn |-> -5],
      [remaining |-> "0", reset |-> "number", resetIn |-> 30],
      [remaining |-> "5", reset |-> "number", resetIn |-> 30] }

NoRateLimit == [remaining |-> "absent", reset |-> "absent", resetIn |-> 0]

\* What one session.get can produce: a RequestException without a response
\* (net = TRUE), or a response with a status and the headers the code reads.
Outcomes ==
    { [net |-> TRUE, status |-> 0, retryAfter |-> NoRetryAfter, rate |-> NoRateLimit] }
    \cup { [net |-> FALSE, status |-> 200, retryAfter |-> NoRetryAfter, rate |-> r] :
             r \in RateLimitValues }
    \cup { [net |-> FALSE, status |-> s, retryAfter |-> NoRetryAfter, rate |-> NoRateLimit] :
             s \in {403, 404, 500, 503} }
    \cup { [net |-> FALSE, status |-> 429, retryAfter |-> ra, rate |-> NoRateLimit] :
             ra \in RetryAfterValues }

NoError == [type |-> "none", attempt |-> 0]

\* BACKOFF_BASE_SECONDS * (2 ** (attempt - 1))
BackoffLinear(attempt) == BACKOFF_BASE_SECONDS * attempt
Backoff(attempt) == BACKOFF_BASE_SECONDS * Pow2(attempt - 1)

\* `if retry_after`: None and "" are falsy.
RetryAfterTruthy(ra) == ra.kind \in {"number", "garbage"}

\* The 429 branch: float(retry_after) if retry_after else the backoff.
\* float() raises ValueError on text that is no number.
SleepSeconds429Ignoring(ra, attempt) == Backoff(attempt)
SleepSeconds429(ra, attempt) ==
    IF RetryAfterTruthy(ra) THEN ra.secs ELSE Backoff(attempt)

\* The exception, if any, the body of the try raises for outcome o:
\* session.get raising, float() or time.sleep() raising ValueError in the 429
\* branch, the explicit HTTPError for 5xx, raise_for_status() for 4xx.
Raised(o) ==
    CASE o.net -> "RequestException"
      [] o.status = 429 /\ RetryAfterTruthy(o.retryAfter)
           /\ o.retryAfter.kind = "garbage" -> "ValueError"
      [] o.status = 429 /\ RetryAfterTruthy(o.retryAfter)
           /\ o.retryAfter.secs < 0 -> "ValueError"
      [] o.status = 429 -> "none"
      [] 500 <= o.status /\ o.status < 600 -> "HTTPError"
      [] 400 <= o.status /\ o.status < 600 -> "HTTPError"
      [] OTHER -> "none"

\* wait_seconds of the proactive rate-limit sleep after a success.
WaitSeconds(rate) ==
    IF rate.remaining = "0" /\ rate.reset # "absent"
    THEN IF rate.reset = "number"
         THEN (IF rate.resetIn > 0 THEN rate.resetIn ELSE 0) * 10
         ELSE 0
    ELSE 0

InitRetry ==
    /\ rq_pc = "loop"
    /\ rq_attempt = 1
    /\ rq_outcomes = <<>>
    /\ rq_sleeps = <<>>
    /\ rq_error = NoError

\* One iteration of `for attempt in range(1, MAX_RETRIES + 1)` with the
\* outcome o of its session.get; the last iteration includes the fall to
\* `raise RuntimeError` after the loop.
RequestAttempt(o) ==
    /\ rq_pc = "loop"
    /\ rq_attempt <= MAX_RETRIES
    /\ rq_outcomes' = Append(rq_outcomes, o)
    /\ UNCHANGED <<covars, pvars, xvars>>
    /\ LET n == rq_attempt
           exc == Raised(o)
       IN  IF exc # "none"
           THEN \* except (requests.RequestException, ValueError)
                IF n = MAX_RETRIES
                THEN /\ rq_pc' = "raised"
                     /\ rq_error' = [type |-> exc, attempt |-> n]
                     /\ UNCHANGED <<rq_attempt, rq_sleeps>>
                ELSE /\ rq_sleeps' = Append(rq_sleeps, [attempt |-> n, secs |-> Backoff(n)])
                     /\ rq_attempt' = n + 1
                     /\ UNCHANGED <<rq_pc, rq_error>>
           ELSE IF o.status = 429
           THEN \* sleep, then `continue`
                /\ rq_sleeps' = Append(rq_sleeps,
                        [attempt |-> n, secs |-> SleepSeconds429(o.retryAfter, n)])
                /\ rq_attempt' = n + 1
                /\ IF n = MAX_RETRIES
                   THEN /\ rq_pc' = "raised"
                        /\ rq_error' = [type |-> "RuntimeError", attempt |-> 0]
                   ELSE UNCHANGED <<rq_pc, rq_error>>
           ELSE \* success: the cooperative rate-limit sleep, then return
                /\ rq_sleeps' = IF WaitSeconds(o.rate) # 0
                                THEN Append(rq_sleeps,
                                        [attempt |-> n, secs |-> WaitSeconds(o.rate)])
                                ELSE rq_sleeps
                /\ rq_pc' = "returned"
                /\ UNCHANGED <<rq_attempt, rq_error>>

NextRetry == \E o \in Outcomes : RequestAttempt(o)

----------------------------------------------------------------------------
(* collect-materials.py: normalize_url, collect_materials, write_materials *)

NumKeywords == 5
MaxResults == 2

\* str.lower() on the scheme and host spellings the model uses.
Lower(str) ==
    CASE str = "HTTPS" -> "https"
      [] str = "Example.com" -> "example.com"
      [] OTHER -> str

\* str.strip() on the titles the model uses.
StripNothing(str) == str
Strip(str) ==
    CASE str = " " -> ""
      [] str = " T " -> "T"
      [] OTHER -> str

\* A URL string, held as the five components it is written with; the path is
\* its sequence of characters.  EmptyUrl is the string "".
BaseUrl == [scheme |-> "https", netloc |-> "example.com", path |-> <<"/", "a">>,
            query |-> "", fragment |-> ""]
EmptyUrl == [scheme |-> "", netloc |-> "", path |-> <<>>, query |-> "", fragment |-> ""]

Urls ==
    { BaseUrl,
      [BaseUrl EXCEPT !.path = <<"/", "a", "/">>],
      [BaseUrl EXCEPT !.path = <<"/", "a", "/", "/">>],
      [BaseUrl EXCEPT !.path = <<>>],
      [BaseUrl EXCEPT !.path = <<"/">>],
      [BaseUrl EXCEPT !.fragment = "top"],
      [BaseUrl EXCEPT !.query = "q=1"],
      [BaseUrl EXCEPT !.query = "q=2"],
      [BaseUrl EXCEPT !.query = "q=1", !.path = <<"/", "a", "/">>],
      [BaseUrl EXCEPT !.scheme = "HTTPS"],
      [BaseUrl EXCEPT !.netloc = "Example.com"] }

\* One element of web.results: title, url and description-or-snippet.
Results ==
    { [title |-> "T", url |-> u, summary |-> "s"] : u \in Urls }
    \cup { [title |-> "", url |-> BaseUrl, summary |-> "s"],
           [title |-> " ", url |-> BaseUrl, summary |-> "s"],
           [title |-> " T ", url |-> [BaseUrl EXCEPT !.fragment = "top"], summary |-> "s"],
           [title |-> "T", url |-> EmptyUrl, summary |-> "s"],
           [title |-> "T2", url |-> [BaseUrl EXCEPT !.path = <<"/", "a", "/">>],
            summary |-> "a longer summary"] }

\* urllib.parse.urlsplit: the scheme is lower-cased, the netloc is kept as
\* written.
urlsplit(url) == [url EXCEPT !.scheme = Lower(url.scheme)]

\* str.rstrip("/")
RECURSIVE rstrip(_)
rstrip(path) ==
    IF path # <<>> /\ path[Len(path)] = "/"
    THEN rstrip(SubSeq(path, 1, Len(path) - 1))
    ELSE path

\* urlunsplit((scheme, netloc, path.rstrip("/"), query, ""))
normalize_url_keep_slash(url) ==
    LET parts == urlsplit(url)
    IN  [scheme |-> parts.scheme, netloc |-> parts.netloc,
         path |-> parts.path, query |-> parts.query, fragment |-> ""]
normalize_url(url) ==
    LET parts == urlsplit(url)
    IN  [scheme |-> parts.scheme, netloc |-> parts.netloc,
         path |-> rstrip(parts.path), query |-> parts.query, fragment |-> ""]

InitCollect ==
    /\ co_pc = "fetch"
    /\ co_index = 0
    /\ entries = <<>>
    /\ seen_urls = {}
    /\ co_processed = <<>>
    /\ co_delays = 0
    /\ co_file = [written |-> FALSE, entries |-> <<>>]
    /\ co_fetched = "none"

\* The end of one keyword's iteration: the delay between queries, then the
\* next keyword, or `return entries` after the last.
FinishKeyword ==
    /\ co_delays' = IF co_index < NumKeywords - 1 THEN co_delays + 1 ELSE co_delays
    /\ IF co_index < NumKeywords - 1
       THEN co_index' = co_index + 1 /\ co_pc' = "fetch"
       ELSE co_index' = co_index /\ co_pc' = "returned"

\* How fetch_results can go.  "results": the response decoded and its
\* web.results are iterated next; "empty": the body decoded and held no
\* results; "invalid_json": the body was empty or no JSON, response.json()
\* raised ValueError; "not_object": the body decoded to something that has no
\* .get (null, a list) or whose "web" has none, data.get raised
\* AttributeError; "raises": request_with_retries raised.
FetchOutcomes == {"results", "empty", "invalid_json", "not_object", "raises"}

\* fetch_results returns a list (the ValueError of response.json() is caught
\* and [] returned); what request_with_retries raises is not caught.
FetchReturnsIfDecoded(outcome) == outcome \in {"results", "empty"}
FetchReturns(outcome) == outcome \in {"results", "empty", "invalid_json"}

\* The list fetch_results returned has elements.
FetchedSome(outcome) == outcome = "results"

\* fetch_results for the current keyword; when it raises, collect_materials
\* and the run end, and when it returns [] the inner loop has nothing to do.
FetchResults(outcome) ==
    /\ co_pc = "fetch"
    /\ co_fetched' = outcome
    /\ IF ~FetchReturns(outcome)
       THEN /\ co_pc' = "failed"
            /\ UNCHANGED <<co_index, co_delays>>
       ELSE IF FetchedSome(outcome)
       THEN /\ co_pc' = "results"
            /\ UNCHANGED <<co_index, co_delays>>
       ELSE FinishKeyword
    /\ UNCHANGED <<entries, seen_urls, co_processed, co_file>>
    /\ UNCHANGED <<rqvars, pvars, xvars>>

\* One iteration of `for result in results`.  The urls of the model carry no
\* surrounding blanks, so url.strip() returns them as they are.
ProcessResult(result) ==
    /\ co_pc = "results"
    /\ Len(co_processed) < MaxResults
    /\ LET title == Strip(result.title)
           url == result.url
           normalized == normalize_url(url)
           admit == title # "" /\ url # EmptyUrl /\ normalized \notin seen_urls
       IN  /\ entries' = IF admit
                         THEN Append(entries, [title |-> title, url |-> url,
                                               summary |-> result.summary])
                         ELSE entries
           /\ seen_urls' = IF admit THEN seen_urls \cup {normalized} ELSE seen_urls
           /\ co_processed' = Append(co_processed, [result |-> result, admitted |-> admit])
    /\ UNCHANGED <<co_pc, co_index, co_delays, co_file, co_fetched>>
    /\ UNCHANGED <<rqvars, pvars, xvars>>

\* The results of the current keyword are used up.
EndResults ==
    /\ co_pc = "results"
    /\ FinishKeyword
    /\ UNCHANGED <<entries, seen_urls, co_processed, co_file, co_fetched>>
    /\ UNCHANGED <<rqvars, pvars, xvars>>

\* main: write_materials(entries, ...) after collect_materials returned.
WriteMaterials ==
    /\ co_pc = "returned"
    /\ co_file' = [written |-> TRUE, entries |-> entries]
    /\ co_pc' = "written"
    /\ UNCHANGED <<co_index, entries, seen_urls, co_processed, co_delays, co_fetched>>
    /\ UNCHANGED <<rqvars, pvars, xvars>>

NextCollect ==
    \/ \E outcome \in FetchOutcomes : FetchResults(outcome)
    \/ \E result \in Results : ProcessResult(result)
    \/ EndResults
    \/ WriteMaterials

----------------------------------------------------------------------------
(* Properties of the deduplication in collect_materials, checked under     *)
(* SpecCollect                                                             *)

\* Result i of the run passed the title/url filter that precedes the
\* duplicate test.
ValidResult(i) ==
    /\ Strip(co_processed[i].result.title) # ""
    /\ co_processed[i].result.url # EmptyUrl

UrlOf(i) == co_processed[i].result.url

\* u and v are the same text except that one path has one more "/" at its end.
DifferOnlyByTrailingSlash(u, v) ==
    /\ u.scheme = v.scheme /\ u.netloc = v.netloc
    /\ u.query = v.query /\ u.fragment = v.fragment
    /\ \/ u.path = Append(v.path, "/")
       \/ v.path = Append(u.path, "/")

DifferOnlyByFragment(u, v) ==
    /\ u.scheme = v.scheme /\ u.netloc = v.netloc
    /\ u.path = v.path /\ u.query = v.query
    /\ u.fragment # v.fragment

DifferOnlyByQuery(u, v) ==
    /\ u.scheme = v.scheme /\ u.netloc = v.netloc
    /\ u.path = v.path /\ u.fragment = v.fragment
    /\ u.query # v.query

DifferOnlyByCase(u, v) ==
    /\ u # v
    /\ Lower(u.scheme) = Lower(v.scheme) /\ Lower(u.netloc) = Lower(v.netloc)
    /\ u.path = v.path /\ u.query = v.query /\ u.fragment = v.fragment

\* i and j are the first two results of the run that pass the filter.
FirstTwoValid(i, j) ==
    /\ i < j /\ ValidResult(i) /\ ValidResult(j)
    /\ \A h \in 1..(j - 1) : h # i => ~ValidResult(h)

\* The entries a run holds are its admitted results, in order.
AdmittedEntries ==
    LET adm == SelectSeq(co_processed, LAMBDA p : p.admitted)
    IN  [k \in 1..Len(adm) |->
            [title |-> Strip(adm[k].result.title), url |-> adm[k].result.url,
             summary |-> adm[k].result.summary]]

\* C5: of two result URLs of a run that differ only by a trailing slash on the
\* path or only by a fragment, the later one is rejected, and the earlier one
\* is admitted when nothing was admitted before it; of two that differ only in
\* the query string, both are admitted when nothing else preceded them.  The
\* admitted results are exactly the entries.
C5_DedupSlashFragmentQuery ==
    /\ entries = AdmittedEntries
    /\ \A i, j \in 1..Len(co_processed) :
        (i < j /\ ValidResult(i) /\ ValidResult(j)) =>
           /\ (DifferOnlyByTrailingSlash(UrlOf(i), UrlOf(j))
                \/ DifferOnlyByFragment(UrlOf(i), UrlOf(j)))
                 => /\ ~co_processed[j].admitted
                    /\ FirstTwoValid(i, j) => co_processed[i].admitted
           /\ (DifferOnlyByQuery(UrlOf(i), UrlOf(j)) /\ FirstTwoValid(i, j))
                 => /\ co_processed[i].admitted
                    /\ co_processed[j].admitted

C5_Witness ==
    /\ Len(co_processed) = 2
    /\ UrlOf(1) = [BaseUrl EXCEPT !.query = "q=1"]
    /\ UrlOf(2) = [BaseUrl EXCEPT !.query = "q=1", !.path = <<"/", "a", "/">>]
    /\ co_processed[1].admitted /\ ~co_processed[2].admitted
    /\ Len(entries) = 1
    /\ co_file.written

\* C6: two result URLs that differ only in the letter case of the scheme or of
\* the host have the same canonical key, so the later one is rejected.
C6_CaseInsensitiveKey ==
    \A i, j \in 1..Len(co_processed) :
        (i < j /\ ValidResult(i) /\ ValidResult(j)
            /\ DifferOnlyByCase(UrlOf(i), UrlOf(j)))
            => /\ normalize_url(UrlOf(i)) = normalize_url(UrlOf(j))
               /\ ~co_processed[j].admitted

\* C17: a fetch_results whose response body is empty or is no JSON adds
\* nothing to the entries and does not end the run: the next keyword is
\* queried, or, after the last keyword, collect_materials returns and the
\* entries gathered from the other keywords are what write_materials writes.
\* Only a request that raised, or a body that decoded to something other than
\* the expected object, makes the run fail.
C17_InvalidJsonNotFatal ==
    /\ [][ (co_pc = "fetch" /\ co_fetched' = "invalid_json") =>
             /\ entries' = entries
             /\ seen_urls' = seen_urls
             /\ co_processed' = co_processed
             /\ co_pc' # "failed"
             /\ IF co_index < 4
                THEN co_pc' = "fetch" /\ co_index' = co_index + 1
                ELSE co_pc' = "returned" /\ co_index' = co_index
         ]_vars
    /\ [](co_pc = "failed" => co_fetched \in {"raises", "not_object"})
    /\ [](co_pc = "written" => co_file = [written |-> TRUE, entries |-> entries])

C17_Witness ==
    /\ co_pc = "written"
    /\ co_fetched = "invalid_json"
    /\ co_index = 4
    /\ co_file.written
    /\ Len(co_file.entries) = 2

\* C19: at every point of a Collect run the entries have pairwise different
\* normalized URLs, a title with a character that is not a blank and a
\* non-empty URL; they are the admitted results in the order the results were
\* taken; a result that passed the title/url filter is admitted exactly when
\* no earlier one that passed it has its normalized URL; and a step never
\* changes or removes an entry already there, it only appends.
C19_FirstSeenInOrder ==
    /\ []( /\ \A i, j \in 1..Len(entries) :
                normalize_url(entries[i].url) = normalize_url(entries[j].url) => i = j
           /\ \A k \in 1..Len(entries) :
                /\ entries[k].title \notin {"", " "}
                /\ entries[k].url # EmptyUrl
           /\ entries = AdmittedEntries
           /\ seen_urls = { normalize_url(entries[k].url) : k \in 1..Len(entries) }
           /\ \A j \in 1..Len(co_processed) :
                co_processed[j].admitted <=>
                   /\ ValidResult(j)
                   /\ \A i \in 1..(j - 1) :
                         ValidResult(i) =>
                            normalize_url(UrlOf(i)) # normalize_url(UrlOf(j)) )
    /\ [][ /\ Len(entries') \in {Len(entries), Len(entries) + 1}
           /\ \A k \in 1..Len(entries) : entries'[k] = entries[k]
           /\ co_pc' = "written" => co_file'.entries = entries
         ]_vars

C19_Witness ==
    /\ Len(co_processed) = 2
    /\ co_processed[1].result = [title |-> "T", url |-> BaseUrl, summary |-> "s"]
    /\ co_processed[1].admitted
    /\ co_processed[2].result.summary = "a longer summary"
    /\ ~co_processed[2].admitted
    /\ entries = << [title |-> "T", url |-> BaseUrl, summary |-> "s"] >>
    /\ co_index > 0

----------------------------------------------------------------------------
(* The stage programs: collect-materials.py main, write-note.py,           *)
(* generate-image.py, publish.py.  A file is [status, data]: "absent",     *)
(* "valid" (complete JSON, data is its value) or "partial" (the file       *)
(* exists but its text is cut short).                                      *)

MaxPublish == 2

D1 == <<2024, 1, 31>>
D2 == <<2024, 2, 1>>
DATES == {D1, D2}
NoDate == <<0, 0, 0>>

\* The entries collect_materials returned (SpecCollect models how).
SampleEntries == << [title |-> "T", url |-> BaseUrl, summary |-> "s"] >>

NoDraft == [date |-> NoDate, tag |-> "", title |-> "", content |-> "", sources |-> <<>>]
EmptyState == [lastPublishDate |-> NoDate, totalNotes |-> 0, topics |-> <<>>,
               monthlyStats |-> <<>>]

AbsentFile(default) == [status |-> "absent", data |-> default]
ValidFile(data) == [status |-> "valid", data |-> data]

\* What sessions_spawn.spawn may hand back: {title, content, sources, tag?}.
AgentNotes ==
    { [title |-> "A", content |-> "what I learned", tag |-> ""],
      [title |-> "", content |-> "a plain remark", tag |-> "#til"],
      [title |-> "A", content |-> "", tag |-> "#til"] }

\* The ways the call of the authoring collaborator can go.
AgentOutcomes ==
    { [kind |-> k, note |-> [title |-> "", content |-> "", tag |-> ""]] :
          k \in {"absent", "timeout", "raises"} }
    \cup { [kind |-> "returns", note |-> n] : n \in AgentNotes }

\* simulated_writer: the title is a fixed prefix followed by the prompt, the
\* content is fixed text, the tag is '#tech-radar'.
simulated_writer(prompt) ==
    [title |-> "Observation: prompt", content |-> "recent trends, demo content",
     tag |-> "#tech-radar"]

\* choose_tag: substring tests on the content the model uses.
choose_tag(content) ==
    CASE content \in {"recent trends, demo content"} -> "#tech-radar"
      [] content \in {"what I learned"} -> "#til"
      [] OTHER -> "#opinion"

\* write_draft's payload.
DraftPayload(d, note) ==
    [date |-> d,
     tag |-> IF note.tag # "" THEN note.tag ELSE choose_tag(note.content),
     title |-> note.title,
     content |-> note.content,
     sources |-> <<>>]

\* load_note: the draft with its date set to the run's and the image path
\* filled in (the path is named by its date).
LoadedNote(d, draft) ==
    [date |-> d, tag |-> draft.tag, title |-> draft.title, content |-> draft.content,
     sources |-> draft.sources, image |-> d]

\* date_str[:7]
MonthKey(d) == <<d[1], d[2]>>

\* update_state's tags: write_draft never writes a "tags" list, so the tag
\* list is [note["tag"]] when the tag is non-empty.
NoteTags(note) == IF note.tag # "" THEN <<note.tag>> ELSE <<>>

\* for tag in tags: if tag not in topics: topics.append(tag)
AddTopicsAlways(topics, tags) == topics \o tags
RECURSIVE AddTopics(_, _)
AddTopics(topics, tags) ==
    IF tags = <<>> THEN topics
    ELSE AddTopics(IF \E i \in 1..Len(topics) : topics[i] = Head(tags)
                   THEN topics ELSE Append(topics, Head(tags)),
                   Tail(tags))

\* notes.insert(0, note)
AppendNote(list, note) == Append(list, note)
NoteAlone(list, note) == <<note>>
InsertNote(list, note) == <<note>> \o list

\* update_state: the new content of state.json.
StateKept(st, note, d) == st
UpdatedStateOncePerDate(st, note, d) ==
    IF st.lastPublishDate = d
    THEN st
    ELSE LET key == MonthKey(d)
             old == IF key \in DOMAIN st.monthlyStats THEN st.monthlyStats[key] ELSE 0
         IN  [lastPublishDate |-> d,
              totalNotes |-> st.totalNotes + 1,
              topics |-> AddTopics(st.topics, NoteTags(note)),
              monthlyStats |-> (key :> (old + 1)) @@ st.monthlyStats]
UpdatedState(st, note, d) ==
    LET key == MonthKey(d)
        old == IF key \in DOMAIN st.monthlyStats THEN st.monthlyStats[key] ELSE 0
    IN  [lastPublishDate |-> d,
         totalNotes |-> st.totalNotes + 1,
         topics |-> AddTopics(st.topics, NoteTags(note)),
         monthlyStats |-> (key :> (old + 1)) @@ st.monthlyStats]

\* read_materials(d) returns: the file exists and json.load accepts it.
read_materials_always(d) == TRUE
read_materials_ok(d) == materials[d].status = "valid"

\* read_draft(d) / load_note(d) returns: the draft exists and is JSON.
read_draft_always(d) == TRUE
read_draft_ok(d) == drafts[d].status = "valid"

\* ensure_image(d) returns: image_path.exists()
ensure_image_always(d) == TRUE
ensure_image_ok(d) == images[d].status # "absent"

Ran(stage, d, exit, reason, calls) ==
    [stage |-> stage, date |-> d, exit |-> exit, reason |-> reason, calls |-> calls]

IdleWriter == [pc |-> "idle", kind |-> "none", date |-> NoDate, data |-> <<>>,
               prior |-> AbsentFile(<<>>)]

\* A run is between the open(path, "w") of a file and the end of its write,
\* or between the two writes of publish.py.
WriterActive == wr.pc \in {"open", "between"}

InitPipeline ==
    /\ materials = [d \in DATES |-> AbsentFile(<<>>)]
    /\ drafts = [d \in DATES |-> AbsentFile(NoDraft)]
    /\ images = [d \in DATES |-> [status |-> "absent"]]
    /\ notes = AbsentFile(<<>>)
    /\ state = AbsentFile(EmptyState)
    /\ last = Ran("none", NoDate, 0, "none", {})
    /\ pub_log = <<>>
    /\ wr = IdleWriter

\* collect-materials.py main for --date d: collect_materials, then
\* write_materials; any exception (or a missing API key) exits 1 before the
\* write.
CollectRun(d, ok) ==
    /\ ~WriterActive
    /\ IF ok
       THEN /\ materials' = [materials EXCEPT ![d] = ValidFile(SampleEntries)]
            /\ last' = Ran("collect", d, 0, "ok", {"search"})
       ELSE /\ materials' = materials
            /\ last' = Ran("collect", d, 1, "collect_failed", {"search"})
    /\ UNCHANGED <<drafts, images, notes, state, pub_log, wr>>
    /\ UNCHANGED <<rqvars, covars, xvars>>

\* write-note.py main for --date d.
DraftRun(d, agent) ==
    /\ ~WriterActive
    /\ IF ~read_materials_ok(d)
       THEN \* read_materials raised: FileNotFoundError, or json.load failed
            /\ last' = Ran("draft", d, 1, "no_materials", {})
            /\ drafts' = drafts
       ELSE IF agent.kind \in {"timeout", "raises"}
       THEN \* spawn_sessions_agent raised (TimeoutError after the deadline, or
            \* the collaborator's own exception); main: except Exception -> exit 1
            /\ last' = Ran("draft", d, 1,
                           IF agent.kind = "timeout" THEN "agent_timeout" ELSE "agent_failed",
                           {"agent"})
            /\ drafts' = drafts
       ELSE LET note == IF agent.kind = "absent"
                        THEN simulated_writer("prompt")
                        ELSE agent.note
                calls == IF agent.kind = "absent" THEN {"simulated_writer"} ELSE {"agent"}
            IN  IF note.title = "" \/ note.content = ""
                THEN /\ last' = Ran("draft", d, 1, "invalid_note", calls)
                     /\ drafts' = drafts
                ELSE /\ last' = Ran("draft", d, 0, "ok", calls)
                     /\ drafts' = [drafts EXCEPT ![d] = ValidFile(DraftPayload(d, note))]
    /\ UNCHANGED <<materials, images, notes, state, pub_log, wr>>
    /\ UNCHANGED <<rqvars, covars, xvars>>

\* generate-image.py main for --date d, run from the repository root (its
\* paths are relative to the working directory).  gen: "wrote" (the API or the CLI
\* succeeded and the file is there), "silent" (it returned without error and
\* wrote nothing), "failed" (every attempt failed).
IllustrateRun(d, gen) ==
    /\ ~WriterActive
    /\ IF ~read_draft_ok(d)
       THEN \* read_draft raised
            /\ last' = Ran("illustrate", d, 1, "no_draft", {})
            /\ images' = images
       ELSE IF gen = "failed"
       THEN /\ last' = Ran("illustrate", d, 1, "generate_failed", {"image"})
            /\ images' = images
       ELSE /\ last' = Ran("illustrate", d, 0, "ok", {"image"})
            /\ images' = IF gen = "wrote"
                         THEN [images EXCEPT ![d] = [status |-> "valid"]]
                         ELSE images
    /\ UNCHANGED <<materials, drafts, notes, state, pub_log, wr>>
    /\ UNCHANGED <<rqvars, covars, xvars>>

\* publish.py main for --date d; gitOk: `git add && git commit && git push`
\* exits 0.
PublishRun(d, gitOk) ==
    /\ ~WriterActive
    /\ Len(pub_log) < MaxPublish
    /\ IF ~read_draft_ok(d)
       THEN \* load_note raised
            /\ last' = Ran("publish", d, 1, "no_draft", {})
            /\ UNCHANGED <<notes, state, pub_log>>
       ELSE IF ~ensure_image_ok(d)
       THEN \* ensure_image raised
            /\ last' = Ran("publish", d, 1, "no_image", {})
            /\ UNCHANGED <<notes, state, pub_log>>
       ELSE IF notes.status = "partial"
       THEN \* update_notes: read_json raised
            /\ last' = Ran("publish", d, 1, "bad_notes", {})
            /\ UNCHANGED <<notes, state, pub_log>>
       ELSE LET note == LoadedNote(d, drafts[d].data)
                newNotes == ValidFile(InsertNote(notes.data, note))
            IN  IF state.status = "partial"
                THEN \* update_state: read_json raised, notes.json is written
                     /\ notes' = newNotes
                     /\ state' = state
                     /\ pub_log' = Append(pub_log, [date |-> d, tag |-> note.tag, exit |-> 1])
                     /\ last' = Ran("publish", d, 1, "bad_state", {})
                ELSE /\ notes' = newNotes
                     /\ state' = ValidFile(UpdatedState(state.data, note, d))
                     /\ IF note.title = ""
                        THEN /\ last' = Ran("publish", d, 1, "no_title", {})
                             /\ pub_log' = Append(pub_log,
                                    [date |-> d, tag |-> note.tag, exit |-> 1])
                        ELSE IF ~gitOk
                        THEN /\ last' = Ran("publish", d, 1, "git_failed", {"git"})
                             /\ pub_log' = Append(pub_log,
                                    [date |-> d, tag |-> note.tag, exit |-> 1])
                        ELSE /\ last' = Ran("publish", d, 0, "ok", {"git"})
                             /\ pub_log' = Append(pub_log,
                                    [date |-> d, tag |-> note.tag, exit |-> 0])
    /\ UNCHANGED <<materials, drafts, images, wr>>
    /\ UNCHANGED <<rqvars, covars, xvars>>

Next ==
    \/ \E d \in DATES, ok \in BOOLEAN : CollectRun(d, ok)
    \/ \E d \in DATES, agent \in AgentOutcomes : DraftRun(d, agent)
    \/ \E d \in DATES, gen \in {"wrote", "silent", "failed"} : IllustrateRun(d, gen)
    \/ \E d \in DATES, gitOk \in BOOLEAN : PublishRun(d, gitOk)

----------------------------------------------------------------------------
(* The same programs with their file writes in two steps, and a crash.     *)
(* write_materials and write_draft use open(path, 'w') and json.dump,      *)
(* write_json uses Path.write_text: each opens the target itself, which    *)
(* truncates it, and then writes the text.                                 *)

CrashDates == {D1}

\* The text of a file whose writer has not finished: cut short, whatever the
\* kind.
PartialFile(kind) ==
    [status |-> "partial",
     data |-> CASE kind = "draft" -> NoDraft
                [] kind = "state" -> EmptyState
                [] OTHER -> <<>>]

FileOf(kind, d) ==
    CASE kind = "materials" -> materials[d]
      [] kind = "draft" -> drafts[d]
      [] kind = "notes" -> notes
      [] kind = "state" -> state

\* files with the file of (kind, d) replaced by f
SetFile(kind, d, f) ==
    /\ materials' = IF kind = "materials" THEN [materials EXCEPT ![d] = f] ELSE materials
    /\ drafts' = IF kind = "draft" THEN [drafts EXCEPT ![d] = f] ELSE drafts
    /\ notes' = IF kind = "notes" THEN f ELSE notes
    /\ state' = IF kind = "state" THEN f ELSE state

\* A run of collect-materials.py, write-note.py or publish.py for date d gets
\* as far as opening its (first) output file for writing; note is what the
\* authoring collaborator returned to write-note.py.
BeginWrite(kind, d, note) ==
    /\ ~WriterActive
    /\ CASE kind = "materials" -> TRUE
         [] kind = "draft" ->
              read_materials_ok(d) /\ note.title # "" /\ note.content # ""
         [] kind = "notes" ->
              /\ read_draft_ok(d) /\ ensure_image_ok(d)
              /\ notes.status # "partial"
              /\ Len(notes.data) < MaxPublish /\ Len(pub_log) < MaxPublish
    /\ wr' = [pc |-> "open", kind |-> kind, date |-> d,
              data |-> CASE kind = "materials" -> SampleEntries
                         [] kind = "draft" -> DraftPayload(d, note)
                         [] kind = "notes" ->
                              InsertNote(notes.data, LoadedNote(d, drafts[d].data)),
              prior |-> FileOf(kind, d)]
    /\ SetFile(kind, d, PartialFile(kind))
    /\ UNCHANGED <<images, last, pub_log>>
    /\ UNCHANGED <<rqvars, covars, xvars>>

\* update_state of a publish run whose notes.json is written: read state.json
\* and open it for writing.
BeginStateWrite ==
    /\ wr.pc = "between"
    /\ IF state.status = "partial"
       THEN \* read_json raised
            /\ wr' = IdleWriter
            /\ last' = Ran("publish", wr.date, 1, "bad_state", {})
            /\ pub_log' = Append(pub_log,
                  [date |-> wr.date, tag |-> drafts[wr.date].data.tag, exit |-> 1])
            /\ UNCHANGED state
       ELSE /\ wr' = [pc |-> "open", kind |-> "state", date |-> wr.date,
                      data |-> UpdatedState(state.data,
                                  LoadedNote(wr.date, drafts[wr.date].data), wr.date),
                      prior |-> state]
            /\ state' = PartialFile("state")
            /\ UNCHANGED <<last, pub_log>>
    /\ UNCHANGED <<materials, drafts, images, notes>>
    /\ UNCHANGED <<rqvars, covars, xvars>>

\* The write in progress completes and the run goes on: collect and draft
\* exit 0, publish goes on to update_state, or, after state.json, to the title
\* test and git.
FinishWrite(gitOk) ==
    /\ wr.pc = "open"
    /\ SetFile(wr.kind, wr.date, ValidFile(wr.data))
    /\ CASE wr.kind = "materials" ->
              /\ last' = Ran("collect", wr.date, 0, "ok", {"search"})
              /\ wr' = IdleWriter
              /\ UNCHANGED pub_log
         [] wr.kind = "draft" ->
              /\ last' = Ran("draft", wr.date, 0, "ok", {"agent"})
              /\ wr' = IdleWriter
              /\ UNCHANGED pub_log
         [] wr.kind = "notes" ->
              /\ wr' = [wr EXCEPT !.pc = "between"]
              /\ UNCHANGED <<last, pub_log>>
         [] wr.kind = "state" ->
              LET note == LoadedNote(wr.date, drafts[wr.date].data)
                  exit == IF note.title # "" /\ gitOk THEN 0 ELSE 1
              IN  /\ last' = Ran("publish", wr.date, exit,
                                 IF note.title = "" THEN "no_title"
                                 ELSE IF gitOk THEN "ok" ELSE "git_failed",
                                 IF note.title = "" THEN {} ELSE {"git"})
                  /\ pub_log' = Append(pub_log,
                        [date |-> wr.date, tag |-> note.tag, exit |-> exit])
                  /\ wr' = IdleWriter
    /\ UNCHANGED images
    /\ UNCHANGED <<rqvars, covars, xvars>>

\* The process of the run is killed; what it had opened stays as it is.
Crash ==
    /\ WriterActive
    /\ wr' = IF wr.pc = "between"
             THEN [pc |-> "crashed", kind |-> "none", date |-> wr.date, data |-> <<>>,
                   prior |-> AbsentFile(<<>>)]
             ELSE [wr EXCEPT !.pc = "crashed"]
    /\ UNCHANGED <<materials, drafts, images, notes, state, last, pub_log>>
    /\ UNCHANGED <<rqvars, covars, xvars>>

NextCrash ==
    \/ \E kind \in {"materials", "draft", "notes"}, d \in CrashDates :
         \E note \in AgentNotes : BeginWrite(kind, d, note)
    \/ BeginStateWrite
    \/ \E gitOk \in BOOLEAN : FinishWrite(gitOk)
    \/ Crash
    \/ \E d \in CrashDates, gen \in {"wrote", "silent", "failed"} : IllustrateRun(d, gen)

----------------------------------------------------------------------------
(* write-note.py step by step: main, and spawn_sessions_agent with its     *)
(* worker thread and its deadline.  Time is counted in steps of the clock  *)
(* while the caller is inside fut.result(timeout=timeout).                 *)

\* --timeout values (the argument is an int; the default is 30)
AgentTimeouts == {1, 2}

NoNote == [title |-> "", content |-> "", tag |-> ""]

InitAgent ==
    /\ ag_pc = "idle"
    /\ ag_date = NoDate
    /\ ag_timeout = 0
    /\ ag_clock = 0
    /\ ag_worker = "none"
    /\ ag_note = NoNote

\* main up to the call of spawn_sessions_agent: read_materials, the prompt.
StartDraft(d, t) ==
    /\ ag_pc = "idle"
    /\ IF ~read_materials_ok(d)
       THEN /\ last' = Ran("draft", d, 1, "no_materials", {})
            /\ UNCHANGED agvars
       ELSE /\ ag_pc' = "spawn"
            /\ ag_date' = d
            /\ ag_timeout' = t
            /\ ag_clock' = 0
            /\ ag_worker' = "none"
            /\ ag_note' = NoNote
            /\ last' = last
    /\ UNCHANGED <<materials, drafts, images, notes, state, pub_log, wr>>
    /\ UNCHANGED <<rqvars, covars, ilvars, ppvars>>

\* `import sessions_spawn` fails: return simulated_writer(prompt)
ImportFails ==
    /\ ag_pc = "spawn"
    /\ ag_pc' = "validate"
    /\ ag_note' = simulated_writer("prompt")
    /\ UNCHANGED <<ag_date, ag_timeout, ag_clock, ag_worker>>
    /\ UNCHANGED <<rqvars, covars, pvars, ilvars, ppvars>>

\* the import succeeds: the pool is entered, ex.submit(call_agent) starts the
\* worker and the caller enters fut.result(timeout=timeout)
Submit ==
    /\ ag_pc = "spawn"
    /\ ag_pc' = "waiting"
    /\ ag_worker' = "running"
    /\ UNCHANGED <<ag_date, ag_timeout, ag_clock, ag_note>>
    /\ UNCHANGED <<rqvars, covars, pvars, ilvars, ppvars>>

\* time passes while the caller waits in fut.result
Tick ==
    /\ ag_pc = "waiting"
    /\ ag_clock < ag_timeout
    /\ ag_clock' = ag_clock + 1
    /\ UNCHANGED <<ag_pc, ag_date, ag_timeout, ag_worker, ag_note>>
    /\ UNCHANGED <<rqvars, covars, pvars, ilvars, ppvars>>

\* the worker: sessions_spawn.spawn returns a note, or raises.  Nothing makes
\* the collaborator answer, so this step may never happen.
WorkerFinishes(agent) ==
    /\ ag_worker = "running"
    /\ agent.kind \in {"returns", "raises"}
    /\ ag_worker' = IF agent.kind = "returns" THEN "returned" ELSE "raised"
    /\ ag_note' = agent.note
    /\ UNCHANGED <<ag_pc, ag_date, ag_timeout, ag_clock>>
    /\ UNCHANGED <<rqvars, covars, pvars, ilvars, ppvars>>

\* fut.result hands over what the worker produced; the exit of the `with`
\* block joins a worker that is already done.  A note is returned to main, an
\* exception reaches main's `except Exception` and the run exits 1.
FutResult ==
    /\ ag_pc = "waiting"
    /\ ag_worker \in {"returned", "raised"}
    /\ IF ag_worker = "returned"
       THEN /\ ag_pc' = "validate"
            /\ last' = last
       ELSE /\ ag_pc' = "idle"
            /\ last' = Ran("draft", ag_date, 1, "agent_failed", {"agent"})
    /\ UNCHANGED <<ag_date, ag_timeout, ag_clock, ag_worker, ag_note>>
    /\ UNCHANGED <<materials, drafts, images, notes, state, pub_log, wr>>
    /\ UNCHANGED <<rqvars, covars, ilvars, ppvars>>

\* fut.result raises after `timeout` with the worker still running; the
\* handler raises TimeoutError("sessions_spawn agent timed out"), which leaves
\* the `with ThreadPoolExecutor` block: its __exit__ is shutdown(wait=True).
DeadlineExpires ==
    /\ ag_pc = "waiting"
    /\ ag_clock = ag_timeout
    /\ ag_worker = "running"
    /\ ag_pc' = "joining"
    /\ UNCHANGED <<ag_date, ag_timeout, ag_clock, ag_worker, ag_note>>
    /\ UNCHANGED <<rqvars, covars, pvars, ilvars, ppvars>>

\* shutdown(wait=True) returns when the worker thread has ended; only then
\* does the TimeoutError reach main, which exits 1.
JoinWorker ==
    /\ ag_pc = "joining"
    /\ ag_worker \in {"returned", "raised"}
    /\ ag_pc' = "idle"
    /\ last' = Ran("draft", ag_date, 1, "agent_timeout", {"agent"})
    /\ UNCHANGED <<ag_date, ag_timeout, ag_clock, ag_worker, ag_note>>
    /\ UNCHANGED <<materials, drafts, images, notes, state, pub_log, wr>>
    /\ UNCHANGED <<rqvars, covars, ilvars, ppvars>>

\* not (not note.get('title') or not note.get('content')); a missing key
\* reads as the empty string
NoteValidByTitle(note) == note.title # ""
NoteValid(note) == note.title # "" /\ note.content # ""

\* main after spawn_sessions_agent returned a note: the check of title and
\* content, then write_draft.
ValidateAndWrite ==
    /\ ag_pc = "validate"
    /\ ag_pc' = "idle"
    /\ LET calls == IF ag_worker = "none" THEN {"simulated_writer"} ELSE {"agent"}
       IN  IF ~NoteValid(ag_note)
           THEN /\ last' = Ran("draft", ag_date, 1, "invalid_note", calls)
                /\ drafts' = drafts
           ELSE /\ last' = Ran("draft", ag_date, 0, "ok", calls)
                /\ drafts' = [drafts EXCEPT ![ag_date] =
                                 ValidFile(DraftPayload(ag_date, ag_note))]
    /\ UNCHANGED <<ag_date, ag_timeout, ag_clock, ag_worker, ag_note>>
    /\ UNCHANGED <<materials, images, notes, state, pub_log, wr>>
    /\ UNCHANGED <<rqvars, covars, ilvars, ppvars>>

NextAgent ==
    \/ \E d \in DATES, ok \in BOOLEAN : CollectRun(d, ok)
    \/ \E d \in DATES, t \in AgentTimeouts : StartDraft(d, t)
    \/ ImportFails
    \/ Submit
    \/ Tick
    \/ \E agent \in AgentOutcomes : WorkerFinishes(agent)
    \/ FutResult
    \/ DeadlineExpires
    \/ JoinWorker
    \/ ValidateAndWrite

\* The caller's own steps and the clock go on; the worker's end is left to
\* the collaborator.
FairAgent ==
    /\ WF_vars(Tick)
    /\ WF_vars(FutResult)
    /\ WF_vars(DeadlineExpires)
    /\ WF_vars(JoinWorker)
    /\ WF_vars(ValidateAndWrite)

----------------------------------------------------------------------------
(* generate-image.py step by step: main, and generate_image with one step  *)
(* per call of the image collaborator.                                     *)

IMAGE_MAX_RETRIES == 3
RETRY_DELAY == 50             \* 5 s

\* How a call of the image collaborator can go.  "unavailable": the module
\* cannot be imported (the API), the executable cannot be started (the CLI);
\* "failed": the call raises, or the CLI exits non-zero; "wrote": it returns
\* and the file is there; "silent": it returns and has written nothing.
ApiOutcomes == {"wrote", "silent", "unavailable", "failed"}
CliOutcomes == {"wrote", "silent", "unavailable", "failed"}

\* The call returned without raising.
Returned(o) == o \in {"wrote", "silent"}

\* The sleeps of the handler `except Exception as e:` of attempt `attempt`.
SleepAfterEveryAttempt(attempt) == << [attempt |-> attempt, secs |-> RETRY_DELAY] >>
SleepAfter(attempt) ==
    IF attempt < IMAGE_MAX_RETRIES
    THEN << [attempt |-> attempt, secs |-> RETRY_DELAY] >>
    ELSE <<>>

InitIllustrate ==
    /\ il_pc = "idle"
    /\ il_date = NoDate
    /\ il_attempt = 0
    /\ il_log = <<>>
    /\ il_sleeps = <<>>
    /\ il_result = "none"

\* main up to the first attempt of generate_image: read_draft, the prompt.
StartIllustrate(d) ==
    /\ il_pc = "idle"
    /\ IF ~read_draft_ok(d)
       THEN /\ last' = Ran("illustrate", d, 1, "no_draft", {})
            /\ UNCHANGED ilvars
       ELSE /\ il_pc' = "api"
            /\ il_date' = d
            /\ il_attempt' = 1
            /\ il_log' = <<>>
            /\ il_sleeps' = <<>>
            /\ il_result' = "none"
            /\ last' = last
    /\ UNCHANGED <<materials, drafts, images, notes, state, pub_log, wr>>
    /\ UNCHANGED <<rqvars, covars, agvars, ppvars>>

\* generate_image returned: main logs success and the program exits 0.
ReturnFromGenerate(o) ==
    /\ il_pc' = "idle"
    /\ il_result' = "returned"
    /\ images' = IF o = "wrote"
                 THEN [images EXCEPT ![il_date] = [status |-> "valid"]]
                 ELSE images
    /\ last' = Ran("illustrate", il_date, 0, "ok", {"image"})
    /\ UNCHANGED <<il_attempt, il_sleeps>>

\* generate_image_api(prompt, output_path) of the current attempt
ApiCall(o) ==
    /\ il_pc = "api"
    /\ il_log' = Append(il_log, [attempt |-> il_attempt, via |-> "api", outcome |-> o])
    /\ IF Returned(o)
       THEN ReturnFromGenerate(o)
       ELSE \* except ImportError / except Exception: fall through to the CLI
            /\ il_pc' = "cli"
            /\ UNCHANGED <<il_attempt, il_sleeps, il_result, images, last>>
    /\ UNCHANGED <<il_date, materials, drafts, notes, state, pub_log, wr>>
    /\ UNCHANGED <<rqvars, covars, agvars, ppvars>>

\* generate_image_cli(prompt, output_path) of the current attempt, and the
\* handler of the attempt when it raises
CliCall(o) ==
    /\ il_pc = "cli"
    /\ il_log' = Append(il_log, [attempt |-> il_attempt, via |-> "cli", outcome |-> o])
    /\ IF Returned(o)
       THEN ReturnFromGenerate(o)
       ELSE /\ il_sleeps' = il_sleeps \o SleepAfter(il_attempt)
            /\ images' = images
            /\ IF il_attempt < IMAGE_MAX_RETRIES
               THEN /\ il_attempt' = il_attempt + 1
                    /\ il_pc' = "api"
                    /\ UNCHANGED <<il_result, last>>
               ELSE \* raise: main's except Exception, sys.exit(1)
                    /\ il_pc' = "idle"
                    /\ il_result' = "raised"
                    /\ last' = Ran("illustrate", il_date, 1, "generate_failed", {"image"})
                    /\ UNCHANGED il_attempt
    /\ UNCHANGED <<il_date, materials, drafts, notes, state, pub_log, wr>>
    /\ UNCHANGED <<rqvars, covars, agvars, ppvars>>

\* the runs are for one date: the other date's files play no part in them
IllustrateDates == {D1}

NextIllustrate ==
    \/ \E d \in IllustrateDates, ok \in BOOLEAN : CollectRun(d, ok)
    \/ \E d \in IllustrateDates, agent \in AgentOutcomes : DraftRun(d, agent)
    \/ \E d \in IllustrateDates : StartIllustrate(d)
    \/ \E o \in ApiOutcomes : ApiCall(o)
    \/ \E o \in CliOutcomes : CliCall(o)

----------------------------------------------------------------------------
(* Two runs of publish.py at the same time, each step by step: a step is   *)
(* one read_json or one write_json of notes.json or state.json.  Nothing   *)
(* in publish.py takes a lock, so the steps of the two runs interleave     *)
(* freely.  What a write cut short leaves behind is SpecCrash's subject;   *)
(* here every write_json is one step.                                      *)

Procs == {"p", "q"}

\* the runs are for one date
PublishDates == {D1}

IdlePublisher ==
    [pc |-> "idle", date |-> NoDate, note |-> NoDraft, notes_read |-> <<>>,
     state_read |-> EmptyState, exit |-> 0]

InitPublishers == pp = [p \in Procs |-> IdlePublisher]

\* update_notes: what write_json(notes_path, notes) writes, given the list
\* the run read and the list the file holds at the time of the write.
WrittenNotesFromCurrent(read, current, note) == InsertNote(current, note)
WrittenNotes(read, current, note) == InsertNote(read, note)

\* main up to update_notes: load_note, ensure_image.  A run that fails here
\* exits 1 and has touched nothing.
PubStart(p, d) ==
    /\ pp[p].pc = "idle"
    /\ IF ~read_draft_ok(d)
       THEN /\ last' = Ran("publish", d, 1, "no_draft", {})
            /\ pp' = pp
       ELSE IF ~ensure_image_ok(d)
       THEN /\ last' = Ran("publish", d, 1, "no_image", {})
            /\ pp' = pp
       ELSE /\ pp' = [pp EXCEPT ![p] = [IdlePublisher EXCEPT
                                           !.pc = "update_notes",
                                           !.date = d,
                                           !.note = LoadedNote(d, drafts[d].data)]]
            /\ last' = last
    /\ UNCHANGED <<materials, drafts, images, notes, state, pub_log, wr>>
    /\ UNCHANGED <<rqvars, covars, agvars, ilvars>>

\* update_notes: notes = [] or read_json(notes_path)
PubReadNotes(p) ==
    /\ pp[p].pc = "update_notes"
    /\ pp' = [pp EXCEPT ![p].pc = "write_notes", ![p].notes_read = notes.data]
    /\ UNCHANGED <<rqvars, covars, pvars, agvars, ilvars>>

\* update_notes: notes.insert(0, note); write_json(notes_path, notes)
PubWriteNotes(p) ==
    /\ pp[p].pc = "write_notes"
    /\ notes' = ValidFile(WrittenNotes(pp[p].notes_read, notes.data, pp[p].note))
    /\ pp' = [pp EXCEPT ![p].pc = "update_state"]
    /\ UNCHANGED <<materials, drafts, images, state, last, pub_log, wr>>
    /\ UNCHANGED <<rqvars, covars, agvars, ilvars>>

\* update_state: state = {} or read_json(state_path)
PubReadState(p) ==
    /\ pp[p].pc = "update_state"
    /\ pp' = [pp EXCEPT ![p].pc = "write_state", ![p].state_read = state.data]
    /\ UNCHANGED <<rqvars, covars, pvars, agvars, ilvars>>

\* update_state from the changes of the state it read to write_json, then the
\* title test and run_git, and the exit of the run.
PubWriteState(p, gitOk) ==
    /\ pp[p].pc = "write_state"
    /\ state' = ValidFile(UpdatedState(pp[p].state_read, pp[p].note, pp[p].date))
    /\ LET exit == IF pp[p].note.title # "" /\ gitOk THEN 0 ELSE 1
       IN  /\ pp' = [pp EXCEPT ![p].pc = "done", ![p].exit = exit]
           /\ last' = Ran("publish", pp[p].date, exit,
                          IF pp[p].note.title = "" THEN "no_title"
                          ELSE IF gitOk THEN "ok" ELSE "git_failed",
                          IF pp[p].note.title = "" THEN {} ELSE {"git"})
    /\ UNCHANGED <<materials, drafts, images, notes, pub_log, wr>>
    /\ UNCHANGED <<rqvars, covars, agvars, ilvars>>

NextPublishers ==
    \/ \E d \in PublishDates, ok \in BOOLEAN : CollectRun(d, ok)
    \/ \E d \in PublishDates, agent \in AgentOutcomes : DraftRun(d, agent)
    \/ \E d \in PublishDates, gen \in {"wrote", "silent", "failed"} : IllustrateRun(d, gen)
    \/ \E p \in Procs, d \in PublishDates : PubStart(p, d)
    \/ \E p \in Procs : PubReadNotes(p)
    \/ \E p \in Procs : PubWriteNotes(p)
    \/ \E p \in Procs : PubReadState(p)
    \/ \E p \in Procs, gitOk \in BOOLEAN : PubWriteState(p, gitOk)

----------------------------------------------------------------------------
(* publish.py over the draft files it can find.  load_note takes any JSON   *)
(* object in drafts/<date>.json, whoever wrote it: a draft of              *)
(* write-note.py, or one written or edited by hand, which may have no      *)
(* title.                                                                  *)

\* The draft files for date d: the ones write-note.py writes, and one whose
\* title is missing or empty.
DraftFiles(d) ==
    { DraftPayload(d, n) : n \in { m \in AgentNotes : NoteValid(m) } }
    \cup { DraftPayload(d, simulated_writer("prompt")),
           [date |-> d, tag |-> "#opinion", title |-> "", content |-> "a plain remark",
            sources |-> <<>>] }

\* drafts/<date>.json is put in place.
DraftFilePlaced(d, draft) ==
    /\ ~WriterActive
    /\ drafts' = [drafts EXCEPT ![d] = ValidFile(draft)]
    /\ UNCHANGED <<materials, images, notes, state, last, pub_log, wr>>
    /\ UNCHANGED <<rqvars, covars, xvars>>

NextPublish ==
    \/ \E d \in DATES : \E draft \in DraftFiles(d) : DraftFilePlaced(d, draft)
    \/ \E d \in DATES, gen \in {"wrote", "silent", "failed"} : IllustrateRun(d, gen)
    \/ \E d \in DATES, gitOk \in BOOLEAN : PublishRun(d, gitOk)

----------------------------------------------------------------------------
(* Properties of the stage programs, checked under Spec and SpecCrash      *)

\* C7: a stage does its work only if the artifact of the stage before it is
\* there for the date.  Draft without a materials file exits 1, calls no writer
\* and leaves the drafts alone; Illustrate without a draft exits 1 and does not
\* call the image collaborator; Publish without a draft or without an image
\* exits 1, leaves notes.json and state.json as they were and does not run git.
C7_StagePreconditions ==
    [][ LET d == last'.date
        IN  /\ (last'.stage = "draft" /\ materials[d].status = "absent")
                  => /\ last'.exit = 1
                     /\ last'.calls = {}
                     /\ drafts' = drafts
            /\ (last'.stage = "illustrate" /\ drafts[d].status = "absent")
                  => /\ last'.exit = 1
                     /\ "image" \notin last'.calls
                     /\ images' = images
            /\ (last'.stage = "publish"
                  /\ (drafts[d].status = "absent" \/ images[d].status = "absent"))
                  => /\ last'.exit = 1
                     /\ "git" \notin last'.calls
                     /\ notes' = notes /\ state' = state
                     /\ pub_log' = pub_log
      ]_vars

C7_Witness ==
    /\ last.stage = "publish" /\ last.exit = 1 /\ last.reason = "no_image"
    /\ drafts[last.date].status = "valid"
    /\ images[last.date].status = "absent"
    /\ notes.status = "valid" /\ Len(notes.data) = 1

\* C8: every Publish run that reaches the index update puts the date's note at
\* index 0 of notes.json and keeps the entries that were there, in their order,
\* right after it; publishing D1 and then D2 gives [note(D2), note(D1)].
C8_IndexPrepend ==
    /\ [][ pub_log' # pub_log =>
             LET d == last'.date
             IN  /\ last'.stage = "publish"
                 /\ notes'.status = "valid"
                 /\ Len(notes'.data) = Len(notes.data) + 1
                 /\ notes'.data[1].date = d
                 /\ notes'.data[1].title = drafts[d].data.title
                 /\ notes'.data[1].tag = drafts[d].data.tag
                 /\ notes'.data[1].content = drafts[d].data.content
                 /\ notes'.data[1].image = d
                 /\ \A k \in 1..Len(notes.data) : notes'.data[k + 1] = notes.data[k]
         ]_vars
    /\ []( (Len(pub_log) = 2 /\ pub_log[1].date = D1 /\ pub_log[2].date = D2)
             => (Len(notes.data) = 2 /\ notes.data[1].date = D2
                                      /\ notes.data[2].date = D1) )

C8_Witness ==
    /\ Len(pub_log) = 2 /\ pub_log[1].date = D1 /\ pub_log[2].date = D2
    /\ Len(notes.data) = 2
    /\ notes.data[1].date = D2 /\ notes.data[2].date = D1

AllPublishesSucceeded == \A i \in 1..Len(pub_log) : pub_log[i].exit = 0

\* C9: from an absent state.json, after n Publish runs that all succeeded,
\* totalNotes = n, topics holds each tag of the published notes once,
\* monthlyStats counts the runs of each month, and lastPublishDate is the date
\* of the last run.
C9_StateAggregation ==
    (AllPublishesSucceeded /\ pub_log # <<>>) =>
        LET n == Len(pub_log)
            st == state.data
            months == { <<pub_log[i].date[1], pub_log[i].date[2]>> : i \in 1..n }
        IN  /\ state.status = "valid"
            /\ st.totalNotes = n
            /\ { st.topics[k] : k \in 1..Len(st.topics) } = { pub_log[i].tag : i \in 1..n }
            /\ \A j, k \in 1..Len(st.topics) : st.topics[j] = st.topics[k] => j = k
            /\ DOMAIN st.monthlyStats = months
            /\ \A m \in months :
                  st.monthlyStats[m] =
                     Cardinality({ i \in 1..n :
                                     <<pub_log[i].date[1], pub_log[i].date[2]>> = m })
            /\ st.lastPublishDate = pub_log[n].date

C9_Witness ==
    /\ Len(pub_log) = 2 /\ AllPublishesSucceeded
    /\ pub_log[1].tag = pub_log[2].tag
    /\ pub_log[1].date = D1 /\ pub_log[2].date = D1
    /\ state.data.totalNotes = 2
    /\ Len(state.data.topics) = 1
    /\ state.data.monthlyStats[<<2024, 1>>] = 2

\* C10: a writer of materials, a draft, notes.json or state.json that is
\* interrupted before its write completes leaves the complete prior artifact
\* in place when there was one: a later read returns it, never a cut-short
\* file.
C10_AtomicWrite ==
    (wr.pc = "crashed" /\ wr.kind # "none" /\ wr.prior.status = "valid") =>
        /\ FileOf(wr.kind, wr.date).status = "valid"
        /\ FileOf(wr.kind, wr.date) = wr.prior

\* C11: a Draft run that found its materials and whose authoring collaborator
\* was absent, or whose call ran past the deadline, falls back to
\* simulated_writer: it exits 0 and the draft of the date is there with the
\* '#tech-radar' tag and a non-empty title and content.
C11_FallbackOnAbsentOrTimeout ==
    (last.stage = "draft"
       /\ (last.calls = {"simulated_writer"} \/ last.reason = "agent_timeout")) =>
        /\ last.exit = 0
        /\ drafts[last.date].status = "valid"
        /\ drafts[last.date].data.tag = "#tech-radar"
        /\ drafts[last.date].data.title # ""
        /\ drafts[last.date].data.content # ""

\* C12: once the deadline of the authoring call has passed with the worker
\* still running, control comes back to main (the call is no longer waiting on
\* the future or on the worker), whether or not the worker ever finishes.
C12_DeadlineReturnsControl ==
    (ag_pc = "waiting" /\ ag_clock = ag_timeout /\ ag_worker = "running")
        ~> (ag_pc \notin {"waiting", "joining"})

\* C13: a Publish run whose git command fails exits 1 (and only a run whose
\* git command succeeded exits 0); git is run only in a run that has written
\* both files, and after the run notes.json still has the run's note at the
\* front of the entries it had, and state.json has totalNotes and the bucket
\* of the month one higher than before the run.
C13_GitFailureKeepsUpdates ==
    [][ (last'.stage = "publish" /\ "git" \in last'.calls) =>
          LET d == last'.date
              key == MonthKey(d)
              old == IF key \in DOMAIN state.data.monthlyStats
                     THEN state.data.monthlyStats[key] ELSE 0
          IN  /\ last'.reason = "git_failed" => last'.exit = 1
              /\ last'.exit = 0 => last'.reason = "ok"
              /\ pub_log' = Append(pub_log, [date |-> d, tag |-> drafts[d].data.tag,
                                             exit |-> last'.exit])
              /\ notes'.status = "valid"
              /\ Len(notes'.data) = Len(notes.data) + 1
              /\ notes'.data[1].date = d
              /\ \A k \in 1..Len(notes.data) : notes'.data[k + 1] = notes.data[k]
              /\ state'.status = "valid"
              /\ state'.data.totalNotes = state.data.totalNotes + 1
              /\ state'.data.monthlyStats[key] = old + 1
              /\ state'.data.lastPublishDate = d
      ]_vars

C13_Witness ==
    /\ last.stage = "publish" /\ last.reason = "git_failed" /\ last.exit = 1
    /\ Len(pub_log) = 2 /\ pub_log[1].exit = 0 /\ pub_log[2].exit = 1
    /\ notes.status = "valid" /\ Len(notes.data) = 2
    /\ notes.data[1].date = last.date
    /\ state.status = "valid" /\ state.data.totalNotes = 2

\* C14: a Publish run for the date of the Publish run before it, with the
\* same draft, adds a second entry for the date to notes.json and one more to
\* totalNotes and to the bucket of the month, and leaves topics and
\* lastPublishDate as the first run set them; two such runs from an empty
\* repository give two entries for the date, totalNotes = 2 and a bucket of 2.
C14_PublishTwiceSameDate ==
    /\ [][ (pub_log' # pub_log /\ pub_log # <<>>
              /\ pub_log[Len(pub_log)].date = last'.date
              /\ pub_log[Len(pub_log)].tag = drafts[last'.date].data.tag) =>
             LET d == last'.date
                 key == MonthKey(d)
             IN  /\ Len(notes'.data) = Len(notes.data) + 1
                 /\ notes'.data[1].date = d
                 /\ notes'.data[2].date = d
                 /\ notes'.data[2] = notes.data[1]
                 /\ state'.data.totalNotes = state.data.totalNotes + 1
                 /\ state'.data.monthlyStats[key] = state.data.monthlyStats[key] + 1
                 /\ state'.data.topics = state.data.topics
                 /\ state'.data.lastPublishDate = state.data.lastPublishDate
         ]_vars
    /\ []( (Len(pub_log) = 2 /\ pub_log[1].date = pub_log[2].date) =>
             /\ Len(notes.data) = 2
             /\ notes.data[1].date = pub_log[1].date
             /\ notes.data[2].date = pub_log[1].date
             /\ state.data.totalNotes = 2
             /\ state.data.monthlyStats[MonthKey(pub_log[1].date)] = 2 )

C14_Witness ==
    /\ Len(pub_log) = 2
    /\ pub_log[1].date = D2 /\ pub_log[2].date = D2
    /\ pub_log[1].tag = pub_log[2].tag
    /\ Len(notes.data) = 2
    /\ notes.data[1] = notes.data[2] /\ notes.data[1].date = D2
    /\ state.data.totalNotes = 2
    /\ state.data.monthlyStats[<<2024, 2>>] = 2
    /\ Len(state.data.topics) = 1
    /\ state.data.lastPublishDate = D2

\* C15: after a stage run that exited 0 the artifact the stage is there to
\* produce exists for the date: the materials file after Collect, the draft
\* after Draft, the image after Illustrate (also when the image collaborator
\* returned without error and wrote nothing), the entry in notes.json after
\* Publish.
C15_SuccessImpliesArtifact ==
    last.exit = 0 =>
        /\ last.stage = "collect" => materials[last.date].status = "valid"
        /\ last.stage = "draft" => drafts[last.date].status = "valid"
        /\ last.stage = "illustrate" => images[last.date].status # "absent"
        /\ last.stage = "publish" =>
              (notes.status = "valid" /\ notes.data # <<>>
                 /\ notes.data[1].date = last.date)

\* C16: a run of generate_image makes at most 3 attempts; in every attempt
\* the API is called first and the CLI only after the API call of that attempt
\* did not return; nothing is called after a call that returned; after each
\* failed attempt but the last there is one sleep of 5 s, and none after the
\* last; the run returns exactly when its last call returned, and it raises
\* exactly when the API and the CLI have both failed in each of 3 attempts.
C16_AttemptsAndFallback ==
    LET n == Len(il_log)
        failedAttempts == { k \in 1..3 : 2 * k <= n /\ ~Returned(il_log[2 * k].outcome) }
    IN  /\ il_attempt \in 0..3
        /\ n <= 6
        /\ \A i \in 1..n :
              /\ il_log[i].attempt = (i + 1) \div 2
              /\ il_log[i].via = IF i % 2 = 1 THEN "api" ELSE "cli"
              /\ i < n => ~Returned(il_log[i].outcome)
        /\ Len(il_sleeps) = Cardinality(failedAttempts \ {3})
        /\ \A j \in 1..Len(il_sleeps) :
              il_sleeps[j] = [attempt |-> j, secs |-> 50]
        /\ il_result = "returned" <=> (n > 0 /\ Returned(il_log[n].outcome))
        /\ il_result = "raised" <=>
              (n = 6 /\ \A i \in 1..6 : ~Returned(il_log[i].outcome))
        /\ (il_pc = "idle" /\ last.stage = "illustrate"
               /\ last.reason = "generate_failed") => il_result = "raised"
        /\ il_pc = "idle" <=> (il_result # "none" \/ il_attempt = 0)

C16_Witness ==
    /\ il_result = "raised"
    /\ Len(il_log) = 6
    /\ il_log[1].outcome = "unavailable" /\ il_log[2].outcome = "failed"
    /\ il_sleeps = << [attempt |-> 1, secs |-> 50], [attempt |-> 2, secs |-> 50] >>
    /\ last.stage = "illustrate" /\ last.exit = 1

\* C20: when main of write-note.py holds the note of the writer, a note
\* with an empty title or an empty content makes the run exit 1 and leaves
\* every draft file as it was; any other note is written as the draft of the
\* date and the run exits 0.  So a draft file always has a non-empty title and
\* content.
C20_DraftOnlyForValidNote ==
    /\ [][ (ag_pc = "validate" /\ ag_pc' = "idle") =>
             IF ag_note.title = "" \/ ag_note.content = ""
             THEN /\ last'.stage = "draft" /\ last'.date = ag_date
                  /\ last'.exit = 1
                  /\ drafts' = drafts
             ELSE /\ last'.stage = "draft" /\ last'.date = ag_date
                  /\ last'.exit = 0
                  /\ drafts'[ag_date].status = "valid"
                  /\ drafts'[ag_date].data.title = ag_note.title
                  /\ drafts'[ag_date].data.content = ag_note.content
                  /\ \A d \in DATES \ {ag_date} : drafts'[d] = drafts[d]
         ]_vars
    /\ [](\A d \in DATES :
            drafts[d].status = "valid" =>
               (drafts[d].data.title # "" /\ drafts[d].data.content # ""))

C20_Witness ==
    /\ ag_pc = "idle"
    /\ ag_note.title = "A" /\ ag_note.content = ""
    /\ last.stage = "draft" /\ last.exit = 1 /\ last.reason = "invalid_note"
    /\ last.date = ag_date
    /\ drafts[ag_date].status = "valid"
    /\ drafts[ag_date].data.title = "Observation: prompt"

\* C18: when two runs of publish.py that started from an empty notes.json
\* and state.json have both completed their updates, notes.json has two
\* entries only if one run read it after the other had written it, and
\* otherwise one: the entry of the run that wrote first is lost.  In the same
\* way totalNotes is 2 only if one run read state.json after the other had
\* written it, and otherwise 1.
C18_LostUpdate ==
    (\A p \in Procs : pp[p].pc = "done") =>
        /\ notes.status = "valid"
        /\ Len(notes.data) = IF \E p \in Procs : pp[p].notes_read # <<>> THEN 2 ELSE 1
        /\ state.status = "valid"
        /\ state.data.totalNotes =
              IF \E p \in Procs : pp[p].state_read.totalNotes = 1 THEN 2 ELSE 1

C18_Witness ==
    /\ \A p \in Procs : pp[p].pc = "done" /\ pp[p].exit = 0
    /\ \A p \in Procs : pp[p].notes_read = <<>> /\ pp[p].state_read = EmptyState
    /\ Len(notes.data) = 1
    /\ state.data.totalNotes = 1
    /\ state.data.monthlyStats[<<2024, 1>>] = 1

\* The sum of the buckets of monthlyStats.
RECURSIVE SumBuckets(_)
SumBuckets(stats) ==
    IF DOMAIN stats = {} THEN 0
    ELSE LET key == CHOOSE k \in DOMAIN stats : TRUE
         IN  stats[key] + SumBuckets([k \in DOMAIN stats \ {key} |-> stats[k]])

\* C21: with notes.json and state.json absent at first and changed only by
\* Publish runs, one at a time and none cut short, after any number of runs,
\* failed or not and for any dates, notes.json has as many entries as
\* totalNotes says, and the buckets of monthlyStats add up to the same number.
C21_IndexMatchesState ==
    /\ Len(notes.data) = state.data.totalNotes
    /\ SumBuckets(state.data.monthlyStats) = state.data.totalNotes
    /\ Len(pub_log) = state.data.totalNotes
    /\ notes.status = state.status

C21_Witness ==
    /\ Len(pub_log) = 2
    /\ pub_log[1].date = D1 /\ pub_log[1].exit = 0
    /\ pub_log[2].date = D2 /\ pub_log[2].exit = 1
    /\ last.stage = "publish" /\ last.reason = "no_title"
    /\ Len(notes.data) = 2
    /\ state.data.totalNotes = 2
    /\ state.data.monthlyStats[<<2024, 1>>] = 1
    /\ state.data.monthlyStats[<<2024, 2>>] = 1

\* C22: a Publish run that exits 1 without having run git (no draft, no
\* image, or a draft without a title) leaves notes.json and state.json as
\* they were before the run.
C22_FailureBeforeGitChangesNothing ==
    [][ (last'.stage = "publish" /\ last'.exit = 1 /\ "git" \notin last'.calls
           /\ last'.reason \in {"no_draft", "no_image", "no_title"}) =>
          (notes' = notes /\ state' = state)
      ]_vars

----------------------------------------------------------------------------
Init == InitRetry /\ InitCollect /\ InitPipeline /\ InitAgent /\ InitIllustrate
        /\ InitPublishers

SpecRetry == Init /\ [][NextRetry]_vars

SpecCollect == Init /\ [][NextCollect]_vars

Spec == Init /\ [][Next]_vars

SpecCrash == Init /\ [][NextCrash]_vars

SpecAgent == Init /\ [][NextAgent]_vars /\ FairAgent

SpecIllustrate == Init /\ [][NextIllustrate]_vars

SpecPublishers == Init /\ [][NextPublishers]_vars

SpecPublish == Init /\ [][NextPublish]_vars

----------------------------------------------------------------------------
(* Properties of request_with_retries, checked under SpecRetry             *)

Is429(o) == ~o.net /\ o.status = 429
Is5xx(o) == ~o.net /\ 500 <= o.status /\ o.status < 600
IsPermanent4xx(o) == ~o.net /\ 400 <= o.status /\ o.status < 500 /\ o.status # 429
Is200(o) == ~o.net /\ o.status = 200
Is429NoRetryAfter(o) == Is429(o) /\ o.retryAfter.kind = "absent"

\* The sleeps performed while handling attempt i.
SleepsAfter(i) == { rq_sleeps[j] : j \in { k \in 1..Len(rq_sleeps) : rq_sleeps[k].attempt = i } }

\* outcomes = k times 429 without Retry-After, then a 200
Is429sThen200(k) ==
    /\ Len(rq_outcomes) = k + 1
    /\ \A i \in 1..k : Is429NoRetryAfter(rq_outcomes[i])
    /\ Is200(rq_outcomes[k + 1])

\* C1: a 4xx response other than 429 is never retried: after a first response
\* 403/404 the call has raised, one request was sent and nothing slept.
C1_PermanentErrorFailsFast ==
    (Len(rq_outcomes) >= 1 /\ IsPermanent4xx(rq_outcomes[1]))
        => /\ Len(rq_outcomes) = 1
           /\ rq_pc = "raised"
           /\ rq_sleeps = <<>>

\* C2 as stated: k 429s without Retry-After and then a 200 give k+1 requests
\* and a returned response; for k = 3 the sleeps are 1.5 s, 3 s, 6 s and no
\* others.
C2_Original ==
    \A k \in 0..3 :
        Is429sThen200(k)
            => /\ rq_pc = "returned"
               /\ k = 3 => rq_sleeps = << [attempt |-> 1, secs |-> 15],
                                          [attempt |-> 2, secs |-> 30],
                                          [attempt |-> 3, secs |-> 60] >>

\* C2 amended: k 429s without Retry-After and then a 200 give k+1 requests
\* and a returned response; the k backoff sleeps are 1.5 s, 3 s, 6 s in that
\* order, and the only other sleep there can be is the one until the
\* rate-limit reset, after the 200, when that 200 says X-RateLimit-Remaining
\* "0" with a reset time still ahead.
C2_BackoffThenSuccess ==
    \A k \in 0..3 :
        Is429sThen200(k)
            => /\ rq_pc = "returned"
               /\ rq_error = NoError
               /\ Len(rq_sleeps) >= k
               /\ \A i \in 1..k :
                     rq_sleeps[i] = [attempt |-> i, secs |-> <<15, 30, 60>>[i]]
               /\ LET rate == rq_outcomes[k + 1].rate
                      ahead == /\ rate.remaining = "0"
                               /\ rate.reset = "number"
                               /\ rate.resetIn > 0
                  IN  IF ahead
                      THEN /\ Len(rq_sleeps) = k + 1
                           /\ rq_sleeps[k + 1] =
                                 [attempt |-> k + 1, secs |-> rate.resetIn * 10]
                      ELSE Len(rq_sleeps) = k

C2_Witness ==
    /\ Is429sThen200(3)
    /\ rq_pc = "returned"
    /\ Len(rq_sleeps) = 3

\* C3 as stated: the sleep after failed attempt n is the Retry-After value
\* for a 429 that carries Retry-After, and base * 2^(n-1) for a 429 without
\* it and for a network error or a 5xx.
C3_Original ==
    \A i \in 1..Len(rq_outcomes) :
        LET o == rq_outcomes[i]
            exp == BACKOFF_BASE_SECONDS * 2^(i - 1)
        IN  \A s \in SleepsAfter(i) :
              /\ (Is429(o) /\ o.retryAfter.kind \in {"number", "garbage"})
                    => (o.retryAfter.kind = "number" /\ s.secs = o.retryAfter.secs)
              /\ Is429NoRetryAfter(o) => s.secs = exp
              /\ (o.net \/ Is5xx(o)) => s.secs = exp

\* C3 amended: after failed attempt n the code sleeps exactly the Retry-After
\* value when the response is 429 and Retry-After is a non-negative number;
\* base * 2^(n-1) when the 429 has no Retry-After (or an empty one); and for
\* every other transient failure (network error, 5xx, and a 429 whose
\* Retry-After is no number or is negative, which ends in the same handler)
\* base * 2^(n-1) when n < MAX_RETRIES and nothing when n = MAX_RETRIES.
C3_SleepSchedule ==
    \A i \in 1..Len(rq_outcomes) :
        LET o == rq_outcomes[i]
            exp == BACKOFF_BASE_SECONDS * 2^(i - 1)
            ra == o.retryAfter
        IN  /\ (Is429(o) /\ ra.kind = "number" /\ ra.secs >= 0)
                  => SleepsAfter(i) = { [attempt |-> i, secs |-> ra.secs] }
            /\ (Is429(o) /\ ra.kind \in {"absent", "empty"})
                  => SleepsAfter(i) = { [attempt |-> i, secs |-> exp] }
            /\ (\/ o.net
                \/ Is5xx(o)
                \/ Is429(o) /\ ra.kind = "garbage"
                \/ Is429(o) /\ ra.kind = "number" /\ ra.secs < 0)
                  => SleepsAfter(i) = IF i < MAX_RETRIES
                                      THEN { [attempt |-> i, secs |-> exp] }
                                      ELSE {}

C3_Witness ==
    /\ Len(rq_outcomes) = 4
    /\ Is429(rq_outcomes[1]) /\ rq_outcomes[1].retryAfter = [kind |-> "number", secs |-> 20]
    /\ Is429NoRetryAfter(rq_outcomes[2])
    /\ rq_outcomes[3].net
    /\ Is5xx(rq_outcomes[4])
    /\ rq_sleeps = << [attempt |-> 1, secs |-> 20],
                      [attempt |-> 2, secs |-> 30],
                      [attempt |-> 3, secs |-> 60] >>

IsRetryable(o) == o.net \/ Is5xx(o) \/ Is429(o)

\* C4: MAX_RETRIES retryable outcomes (network failure, 5xx, 429) end the call
\* after exactly MAX_RETRIES requests with an error that carries the failure
\* of the final attempt.
C4_ExhaustedCarriesLastError ==
    (Len(rq_outcomes) = MAX_RETRIES
        /\ \A i \in 1..MAX_RETRIES : IsRetryable(rq_outcomes[i]))
        => /\ rq_pc = "raised"
           /\ rq_error.type # "none"
           /\ rq_error.attempt = MAX_RETRIES

====
